---- MODULE Spec2Model ----
(***************************************************************************)
(* Model of src/server.js: the host monitor of the admin panel.            *)
(*                                                                         *)
(* The file holds three copies of the monitor that a merge left side by    *)
(* side: lines 1-193 ("v1h": one averaged point per cycle, one hour of     *)
(* retention, 30 minute period), lines 195-384 ("v6h": six hourly buckets, *)
(* parallel sampling, query timeout) and lines 386-582 ("guarded": six     *)
(* hourly buckets behind a non-empty guard, sequential sampling).  The     *)
(* variable `variant` says which copy runs.                                *)
(*                                                                         *)
(* JavaScript numbers are modelled in hundredths: the number x is          *)
(* Num(100 * x).  NaN and null are values of their own.  Times are         *)
(* milliseconds since the epoch.                                           *)
(***************************************************************************)
EXTENDS Integers, Sequences, FiniteSets, TLC

VARIABLES
    variant,            \* which copy of the program runs
    unhandled,          \* what the runtime does with an unhandled rejection
    alive,              \* the process is running
    clock,              \* Date.now()
    nextTick,           \* when the setInterval timer fires next
    performanceHistory, \* the in-memory window
    performanceData,    \* the cached series
    file,               \* performanceHistory.json on disk
    tasks,              \* getSystemPerformance calls in flight
    events,             \* ticks, requests and restarts so far
    last                \* history variable: what the last step did

vars == << variant, unhandled, alive, clock, nextTick, performanceHistory,
           performanceData, file, tasks, events, last >>

(***************************************************************************)
(* Bounds of the model.                                                    *)
(***************************************************************************)
\* The interval ticks, the requests and the restarts of a run, together.
MaxEvents == 1

(***************************************************************************)
(* Program constants.                                                      *)
(***************************************************************************)
ONE_HOUR == 60 * 60 * 1000
SIX_HOURS == 6 * ONE_HOUR
HALF_HOUR == 60 * 1000 * 30
CPU_INTERVAL == 1000
QUERY_TIMEOUT == 3000
BucketCount == 6
SeriesCap == 24

Variants == {"v1h", "v6h", "guarded"}

\* The period of setInterval(recordPerformance, ...).
Period(v) == IF v = "v1h" THEN HALF_HOUR ELSE ONE_HOUR

\* The retention of the prune (ONE_HOUR in the first copy, SIX_HOURS after).
Retention(v) == IF v = "v1h" THEN ONE_HOUR ELSE SIX_HOURS

(***************************************************************************)
(* JavaScript values.                                                      *)
(***************************************************************************)
Num(n) == [k |-> "num", v |-> n]
NaN == [k |-> "nan", v |-> 0]
Null == [k |-> "null", v |-> 0]

IsNum(x) == x.k = "num"

\* a + b of JavaScript: NaN absorbs, null counts as 0.
JsAdd(a, b) ==
    IF a.k = "nan" \/ b.k = "nan" THEN NaN
    ELSE Num((IF a.k = "num" THEN a.v ELSE 0) + (IF b.k = "num" THEN b.v ELSE 0))

\* Math.round(a / n) for a count n > 0: the nearest integer, a half going up;
\* NaN / n is NaN.  (The quotient is taken exactly, not in binary floating
\* point.)
RoundDiv(a, n) ==
    IF a.k = "nan" THEN NaN
    ELSE Num(100 * ((2 * a.v + 100 * n) \div (200 * n)))

\* x ?? d
Coalesce(x, d) == IF x.k = "null" THEN d ELSE x

\* new Date(t).toISOString() and new Date(s).getTime(): millisecond precision
\* both ways.
ToISOString(t) == [iso |-> t]
GetTime(s) == s.iso

\* toLocaleTimeString([], {hour, minute}): the minute of the day.
TimeLabel(t) == (t \div 60000) % 1440

(***************************************************************************)
(* Sequences.                                                              *)
(***************************************************************************)
RECURSIVE Reduce(_, _, _)
\* s.reduce((a, c) => a + c[key], acc)
Reduce(s, key, acc) ==
    IF s = << >> THEN acc
    ELSE Reduce(Tail(s), key, JsAdd(acc, Head(s)[key]))

(***************************************************************************)
(* The sampler.                                                            *)
(***************************************************************************)
RECURSIVE SumIdle(_, _, _)
\* totalIdle over the cores of endCpus, each against startCpus[i]
SumIdle(st, en, i) ==
    IF i > Len(en) THEN 0
    ELSE (en[i].idle - st[i].idle) + SumIdle(st, en, i + 1)

RECURSIVE SumTick(_, _, _)
SumTick(st, en, i) ==
    IF i > Len(en) THEN 0
    ELSE (en[i].user - st[i].user) + (en[i].nice - st[i].nice)
         + (en[i].sys - st[i].sys) + (en[i].irq - st[i].irq)
         + (en[i].idle - st[i].idle) + SumTick(st, en, i + 1)

\* The callback of getCpuUsage throws when endCpus has a core that startCpus
\* lacks: startCpus[i] is undefined and `.times` of it is a TypeError.
CpuThrows(st, en) == Len(en) > Len(st)

\* parseFloat((100 - totalIdle / totalTick * 100).toFixed(2)); 0 / 0 is NaN.
CpuPercent(st, en) ==
    LET idle == SumIdle(st, en, 1)
        tick == SumTick(st, en, 1)
    IN  IF tick = 0 THEN NaN
        ELSE Num((2 * 10000 * (tick - idle) + tick) \div (2 * tick))

\* parseFloat(((usedMem / totalMem) * 100).toFixed(2))
RamPercent(total, free) ==
    Num((2 * 10000 * (total - free) + total) \div (2 * total))

(***************************************************************************)
(* The history file.                                                       *)
(***************************************************************************)
\* JSON.stringify of a number: NaN is written as null.
Stringify(x) == IF x.k = "num" THEN [j |-> "number", v |-> x.v]
                ELSE [j |-> "null", v |-> 0]

\* JSON.parse of a number or null.
Parse(x) == IF x.j = "number" THEN Num(x.v) ELSE Null

StringifySample(e) ==
    [time |-> e.time, cpu |-> Stringify(e.cpu), ram |-> Stringify(e.ram),
     ping |-> Stringify(e.ping)]

ParseSample(o) ==
    [time |-> o.time, cpu |-> Parse(o.cpu), ram |-> Parse(o.ram),
     ping |-> Parse(o.ping)]

RECURSIVE StringifyHistory(_)
\* JSON.stringify(performanceHistory, null, 2)
StringifyHistory(h) ==
    IF h = << >> THEN << >>
    ELSE << StringifySample(Head(h)) >> \o StringifyHistory(Tail(h))

RECURSIVE ParseArray(_)
\* JSON.parse of the array of samples
ParseArray(d) ==
    IF d = << >> THEN << >>
    ELSE << ParseSample(Head(d)) >> \o ParseArray(Tail(d))

Missing == [kind |-> "missing", data |-> << >>]
Invalid == [kind |-> "invalid", data |-> << >>]
Json(d) == [kind |-> "json", data |-> d]

\* The load at startup: [] when the file is missing or does not parse.
LoadHistory(f) ==
    IF f.kind = "json" THEN ParseArray(f.data) ELSE << >>

\* What fs.writeFileSync can do: write the whole text, fail before the file is
\* opened (the file keeps its content), or fail after the open truncated it
\* (a proper prefix of the text is left, which is no JSON).
WriteOutcomes == {"ok", "eacces", "enospc"}

\* WriteFile that only queues the write (fs.writeFile where the code has
\* fs.writeFileSync): the file still holds its old content when the caller
\* goes on.
WriteFileDeferred(f, h, outcome) == f

\* WriteFile that appends to the file where the code rewrites it: what was
\* there stays in front of the new text.
WriteFileAppend(f, h, outcome) ==
    CASE outcome = "ok" ->
            IF f.kind = "missing" THEN Json(StringifyHistory(h)) ELSE Invalid
      [] outcome = "eacces" -> f
      [] OTHER -> Invalid

WriteFile(f, h, outcome) ==
    CASE outcome = "ok" -> Json(StringifyHistory(h))
      [] outcome = "eacces" -> f
      [] OTHER -> Invalid

(***************************************************************************)
(* The aggregator.                                                         *)
(***************************************************************************)
\* Within with the bound excluded: `<` where the code has `<=`.
WithinStrict(h, now, r) == SelectSeq(h, LAMBDA e : now - GetTime(e.time) < r)

\* performanceHistory.filter(e => now - new Date(e.time).getTime() <= r)
Within(h, now, r) == SelectSeq(h, LAMBDA e : now - GetTime(e.time) <= r)

\* InBucket with both ends included: `<=` where the code has `<`.
InBucketClosed(h, hourStart, hourEnd) ==
    SelectSeq(h, LAMBDA e : GetTime(e.time) >= hourStart /\ GetTime(e.time) <= hourEnd)

\* lastSix.filter(e => t >= hourStart && t < hourEnd)
InBucket(h, hourStart, hourEnd) ==
    SelectSeq(h, LAMBDA e : GetTime(e.time) >= hourStart /\ GetTime(e.time) < hourEnd)

\* Avg without the test of bucket.length: 0 / 0 is NaN.
AvgUnguarded(bucket, key) ==
    IF Len(bucket) > 0 THEN RoundDiv(Reduce(bucket, key, Num(0)), Len(bucket))
    ELSE NaN

\* Math.round(avg(key)): 0 for an empty bucket.
Avg(bucket, key) ==
    IF Len(bucket) > 0 THEN RoundDiv(Reduce(bucket, key, Num(0)), Len(bucket))
    ELSE Num(0)

\* The body of the loop for one i.
HourBucket(lastSix, now, i) ==
    LET hourStart == now - (i + 1) * ONE_HOUR
        hourEnd == now - i * ONE_HOUR
        bucket == InBucket(lastSix, hourStart, hourEnd)
    IN  [time |-> TimeLabel(hourEnd), cpu |-> Avg(bucket, "cpu"),
         ram |-> Avg(bucket, "ram"), ping |-> Avg(bucket, "ping")]

RECURSIVE HourlyFrom(_, _, _)
\* for (let i = ...; i >= 0; i--) hourlyData.push(...)
HourlyFrom(lastSix, now, i) ==
    IF i < 0 THEN << >>
    ELSE << HourBucket(lastSix, now, i) >> \o HourlyFrom(lastSix, now, i - 1)

HourlyData(lastSix, now) == HourlyFrom(lastSix, now, BucketCount - 1)

\* The first copy: one point averaged over the last hour, pushed onto the
\* series, which loses its head once it holds more than 24 points.
PushPoint(data, lastHour, now) ==
    LET kept == IF Len(data) > SeriesCap THEN Tail(data) ELSE data
    IN  Append(kept, [time |-> TimeLabel(now), cpu |-> Avg(lastHour, "cpu"),
                      ram |-> Avg(lastHour, "ram"), ping |-> Avg(lastHour, "ping")])

\* The series a cycle caches, from the window after the append.
Aggregate(v, data, h, now) ==
    LET inRange == Within(h, now, Retention(v))
    IN  CASE v = "v6h" -> HourlyData(inRange, now)
          [] v = "guarded" -> IF Len(inRange) > 0 THEN HourlyData(inRange, now) ELSE data
          [] OTHER -> IF Len(inRange) > 0 THEN PushPoint(data, inRange, now) ELSE data

\* The prune runs in every cycle of v6h, and behind the non-empty guard in the
\* other two copies.
PruneRuns(v, h, now) == v = "v6h" \/ Len(Within(h, now, Retention(v))) > 0

RECURSIVE Reversed(_)
Reversed(s) == IF s = << >> THEN << >> ELSE Append(Reversed(Tail(s)), Head(s))

\* Prune that leaves the samples it keeps newest first.
PruneNewestFirst(v, h, now) ==
    IF PruneRuns(v, h, now) THEN Reversed(Within(h, now, Retention(v))) ELSE h

Prune(v, h, now) == IF PruneRuns(v, h, now) THEN Within(h, now, Retention(v)) ELSE h

(***************************************************************************)
(* recordPerformance after its await: entry, push, write, aggregate,       *)
(* prune, write.  t0 is the clock at `new Date()`, now the clock at        *)
(* `Date.now()`, w1 and w2 what the two writes do.  A failed write throws  *)
(* out of the function: what follows it does not run.                      *)
(***************************************************************************)
Entry(t0, stats) ==
    [time |-> ToISOString(t0), cpu |-> stats.cpuPercent, ram |-> stats.ramPercent,
     ping |-> stats.ping]

RecordPerformance(v, h, data, f, t0, now, stats, w1, w2) ==
    LET h1 == Append(h, Entry(t0, stats))
        f1 == WriteFile(f, h1, w1)
        recent == Prune(v, h1, now)
        pruned == Len(recent) # Len(h1)
    IN  IF w1 # "ok"
        THEN [history |-> h1, data |-> data, file |-> f1, threw |-> TRUE,
              stage |-> "append", wrote |-> FALSE]
        ELSE IF ~pruned
        THEN [history |-> h1, data |-> Aggregate(v, data, h1, now), file |-> f1,
              threw |-> FALSE, stage |-> "done", wrote |-> TRUE]
        ELSE [history |-> recent, data |-> Aggregate(v, data, h1, now),
              file |-> WriteFile(f1, recent, w2), threw |-> w2 # "ok",
              stage |-> IF w2 = "ok" THEN "done" ELSE "prune", wrote |-> w2 = "ok"]

(***************************************************************************)
(* What the operating system reports.                                      *)
(***************************************************************************)
Core(u, n, s, q, d) == [user |-> u, nice |-> n, sys |-> s, irq |-> q, idle |-> d]

Base1 == << Core(100, 0, 50, 0, 850) >>
Busy1 == << Core(350, 0, 50, 0, 1600) >>
Base2 == << Core(100, 0, 50, 0, 850), Core(100, 0, 50, 0, 850) >>

\* os.cpus() when a sample starts.
StartSnaps == {Base1}

\* os.cpus() later: nothing counted, a quarter of the second busy, or a second
\* core plugged in.
CpuReadings == {Base1, Busy1, Base2}

Min2(a, b) == IF a < b THEN a ELSE b

\* The counters of a core never decrease.
NotBefore(st, en) ==
    \A i \in 1..Min2(Len(st), Len(en)) :
        /\ en[i].user >= st[i].user /\ en[i].nice >= st[i].nice
        /\ en[i].sys >= st[i].sys /\ en[i].irq >= st[i].irq
        /\ en[i].idle >= st[i].idle

\* os.cpus() one second after it returned st.
EndSnaps(st) == {en \in CpuReadings : NotBefore(st, en)}

\* os.totalmem() and os.freemem(), in megabytes.
MemReadings == {<< 3072, 1024 >>}

\* What the ping process does when it answers: it fails (null), or it prints
\* a round-trip time.
PingOutcomes == {Null, Num(1234)}

BootTime == 10 * ONE_HOUR

(***************************************************************************)
(* The window a previous run of the program left on disk.                  *)
(***************************************************************************)
Sample(t, c, r, p) ==
    [time |-> ToISOString(t), cpu |-> Num(c), ram |-> Num(r), ping |-> Num(p)]

OldSamples ==
    << Sample(BootTime - 7 * ONE_HOUR, 7000, 8000, 900),
       Sample(BootTime + CPU_INTERVAL - SIX_HOURS, 1000, 2000, 500),
       Sample(BootTime + CPU_INTERVAL - ONE_HOUR, 5000, 6000, 1500),
       Sample(BootTime - HALF_HOUR, 1100, 2050, 0) >>

\* The windows of at most two of these samples, oldest first.
OldWindows ==
    {<< >>} \cup {<< OldSamples[i] >> : i \in 1..Len(OldSamples)}
    \cup {<< OldSamples[i], OldSamples[j] >> :
            i \in 1..Len(OldSamples), j \in 1..Len(OldSamples)}

\* What the file can hold when the process starts.
AllFiles ==
    {Missing, Invalid}
    \cup {Json(StringifyHistory(w)) :
            w \in {x \in OldWindows :
                     Len(x) < 2 \/ GetTime(x[1].time) < GetTime(x[2].time)}}

FewFiles ==
    {Missing, Invalid, Json(StringifyHistory(<< OldSamples[1], OldSamples[4] >>))}

(***************************************************************************)
(* An environment: the files the process may find at its first start, what *)
(* os.cpus() may return at the end of a CPU sample, what the ping may      *)
(* answer and what a write may do.                                         *)
(***************************************************************************)
Env(files, readings, pings, writes, elapsed) ==
    [files |-> files, readings |-> readings, pings |-> pings, writes |-> writes,
     elapsed |-> elapsed]

(***************************************************************************)
(* getSystemPerformance.                                                   *)
(***************************************************************************)
Waiting == [st |-> "wait", val |-> Null]
Idle == [st |-> "idle", val |-> Null]
Done(x) == [st |-> "done", val |-> x]

\* The call up to its first await: memory is read, the first CPU snapshot is
\* taken and its timer set; the ping starts at once in v6h (Promise.all) and
\* after the CPU sample in the other copies.
NewTask(v, kind, t, snap, mem) ==
    [kind |-> kind, start |-> t, ram |-> RamPercent(mem[1], mem[2]),
     startCpus |-> snap, cpu |-> Waiting,
     ping |-> IF v = "v6h" THEN Waiting ELSE Idle]

\* The object getSystemPerformance returns.
Stats(v, cpu, ram, ping) ==
    [cpuUsage |-> cpu,
     cpuPercent |-> IF v = "v6h" THEN Coalesce(cpu, Num(0)) ELSE cpu,
     ramPercent |-> ram,
     ping |-> Coalesce(ping, Num(0))]

Remove(s, i) == SubSeq(s, 1, i - 1) \o SubSeq(s, i + 1, Len(s))

SetMin(S) == CHOOSE x \in S : \A y \in S : x <= y

\* The timers set: the interval, the CPU timers and the query timeouts.
Deadlines(ts, skip) ==
    {nextTick}
    \cup {ts[i].start + CPU_INTERVAL : i \in {j \in DOMAIN ts : j # skip /\ ts[j].cpu.st = "wait"}}
    \cup {ts[i].start + QUERY_TIMEOUT :
            i \in {j \in DOMAIN ts : j # skip /\ ts[j].kind = "query" /\ variant = "v6h"}}

NextDeadline == SetMin(Deadlines(tasks, 0))

\* How far the clock moves between `new Date()` and `Date.now()` of a cycle:
\* not at all, or a millisecond (no timer is kept waiting).
Elapsed(E, i) == {d \in E.elapsed : clock + d <= SetMin(Deadlines(tasks, i))}

(***************************************************************************)
(* The state after the module has been loaded: the history is read from    *)
(* the file, the interval is set and the first cycle has started.          *)
(***************************************************************************)
InitEnv(E) ==
    /\ variant \in Variants
    /\ unhandled = "unset"
    /\ alive = TRUE
    /\ clock = BootTime
    /\ nextTick = BootTime + Period(variant)
    /\ file \in E.files
    /\ performanceHistory = LoadHistory(file)
    /\ performanceData = << >>
    /\ \E snap \in StartSnaps, mem \in MemReadings :
          tasks = << NewTask(variant, "cycle", BootTime, snap, mem) >>
    /\ events = 0
    /\ last = [op |-> "boot", loaded |-> file.kind]

\* An exception nobody catches ends the process.
Crash(why) ==
    /\ alive' = FALSE
    /\ tasks' = << >>
    /\ last' = [op |-> "crash", why |-> why]
    /\ UNCHANGED << variant, unhandled, clock, nextTick, performanceHistory,
                    performanceData, file, events >>

\* Respond that empties the cached series once it has sent it.
RespondClearing(i, stats) ==
    /\ tasks' = Remove(tasks, i)
    /\ last' = [op |-> "respond", start |-> tasks[i].start, timedOut |-> FALSE,
                pingWaiting |-> FALSE,
                cpu |-> [na |-> FALSE, val |-> stats.cpuUsage],
                ram |-> [na |-> FALSE, val |-> stats.ramPercent],
                ping |-> stats.ping, performanceData |-> performanceData]
    /\ performanceData' = << >>
    /\ UNCHANGED << variant, unhandled, alive, clock, nextTick, performanceHistory,
                    file, events >>

\* res.json({cpu, ram, ping, performanceData}) of GET /api/monitor.
Respond(i, stats) ==
    /\ tasks' = Remove(tasks, i)
    /\ last' = [op |-> "respond", start |-> tasks[i].start, timedOut |-> FALSE,
                pingWaiting |-> FALSE,
                cpu |-> [na |-> FALSE, val |-> stats.cpuUsage],
                ram |-> [na |-> FALSE, val |-> stats.ramPercent],
                ping |-> stats.ping, performanceData |-> performanceData]
    /\ UNCHANGED << variant, unhandled, alive, clock, nextTick, performanceHistory,
                    performanceData, file, events >>

\* The promise of recordPerformance is rejected and nobody handles it: the
\* runtime ends the process ("throw", the default since Node 15) or only warns
\* ("warn").  Which runtime it is shows at the first such rejection.
Rejection(mode, threw) ==
    IF threw /\ mode = "unset" THEN {"throw", "warn"} ELSE {mode}

\* The rest of recordPerformance, run when its await returns; probe is what
\* getPing resolved with in the sample of this cycle.
Record(i, stats, probe, d, w1, w2) ==
    LET r == RecordPerformance(variant, performanceHistory, performanceData, file,
                               clock, clock + d, stats, w1, w2)
    IN  /\ performanceHistory' = r.history
        /\ performanceData' = r.data
        /\ file' = r.file
        /\ clock' = IF r.stage = "append" THEN clock ELSE clock + d
        /\ unhandled' \in Rejection(unhandled, r.threw)
        /\ alive' = ~(r.threw /\ unhandled' = "throw")
        /\ tasks' = IF alive' THEN Remove(tasks, i) ELSE << >>
        /\ last' = [op |-> "record", stage |-> r.stage, wrote |-> r.wrote,
                    threw |-> r.threw, fileBefore |-> file.kind,
                    lenBefore |-> Len(performanceHistory),
                    removed |-> Len(performanceHistory) + 1 - Len(r.history),
                    probe |-> probe]
        /\ UNCHANGED << variant, nextTick, events >>

\* What the second write of a cycle may do: it happens only when the first one
\* went through and the prune removed something.
SecondWrite(E, i, stats, d, w1) ==
    IF w1 = "ok" /\ Len(Prune(variant, Append(performanceHistory, Entry(clock, stats)),
                             clock + d)) # Len(performanceHistory) + 1
    THEN E.writes ELSE {"ok"}

\* getSystemPerformance has both its results: its caller goes on.
Complete(E, i, cpu, ping) ==
    LET stats == Stats(variant, cpu, tasks[i].ram, ping)
    IN  IF tasks[i].kind = "query" THEN Respond(i, stats)
        ELSE \E d \in Elapsed(E, i), w1 \in E.writes :
                \E w2 \in SecondWrite(E, i, stats, d, w1) :
                    Record(i, stats, ping, d, w1, w2)

Update(i, t) ==
    /\ tasks' = [tasks EXCEPT ![i] = t]
    /\ last' = [op |-> "await"]
    /\ UNCHANGED << variant, unhandled, alive, clock, nextTick, performanceHistory,
                    performanceData, file, events >>

\* The timer of getCpuUsage fires one second after the first snapshot.
CpuTimer(E, i) ==
    /\ alive
    /\ tasks[i].cpu.st = "wait"
    /\ clock = tasks[i].start + CPU_INTERVAL
    /\ \E en \in E.readings \cap EndSnaps(tasks[i].startCpus) :
          IF CpuThrows(tasks[i].startCpus, en) THEN Crash("cpus")
          ELSE LET cpu == CpuPercent(tasks[i].startCpus, en)
               IN  IF variant = "v6h"
                   THEN IF tasks[i].ping.st = "done"
                        THEN Complete(E, i, cpu, tasks[i].ping.val)
                        ELSE Update(i, [tasks[i] EXCEPT !.cpu = Done(cpu)])
                   ELSE Update(i, [tasks[i] EXCEPT !.cpu = Done(cpu), !.ping = Waiting])

\* The callback of exec in getPing runs.
PingReply(E, i) ==
    /\ alive
    /\ tasks[i].ping.st = "wait"
    /\ \E out \in E.pings :
          IF tasks[i].cpu.st = "done" THEN Complete(E, i, tasks[i].cpu.val, out)
          ELSE Update(i, [tasks[i] EXCEPT !.ping = Done(out)])

\* The timer of withTimeout fires: the request is answered with the fallback.
QueryTimeout(i) ==
    /\ alive
    /\ variant = "v6h"
    /\ tasks[i].kind = "query"
    /\ clock = tasks[i].start + QUERY_TIMEOUT
    /\ tasks' = Remove(tasks, i)
    /\ last' = [op |-> "respond", start |-> tasks[i].start, timedOut |-> TRUE,
                pingWaiting |-> tasks[i].ping.st = "wait",
                cpu |-> [na |-> TRUE, val |-> Null],
                ram |-> [na |-> TRUE, val |-> Null],
                ping |-> Num(0), performanceData |-> performanceData]
    /\ UNCHANGED << variant, unhandled, alive, clock, nextTick, performanceHistory,
                    performanceData, file, events >>

\* The interval fires: recordPerformance is called.
Tick ==
    /\ alive
    /\ events < MaxEvents
    /\ clock = nextTick
    /\ \E snap \in StartSnaps, mem \in MemReadings :
          tasks' = Append(tasks, NewTask(variant, "cycle", clock, snap, mem))
    /\ nextTick' = nextTick + Period(variant)
    /\ events' = events + 1
    /\ last' = [op |-> "tick"]
    /\ UNCHANGED << variant, unhandled, alive, clock, performanceHistory,
                    performanceData, file >>

\* A GET /api/monitor request arrives.
Request ==
    /\ alive
    /\ events < MaxEvents
    /\ \E snap \in StartSnaps, mem \in MemReadings :
          tasks' = Append(tasks, NewTask(variant, "query", clock, snap, mem))
    /\ events' = events + 1
    /\ last' = [op |-> "request"]
    /\ UNCHANGED << variant, unhandled, alive, clock, nextTick, performanceHistory,
                    performanceData, file >>

\* Time passes up to the next timer.
Advance ==
    /\ alive
    /\ clock < NextDeadline
    /\ clock' = NextDeadline
    /\ last' = [op |-> "advance"]
    /\ UNCHANGED << variant, unhandled, alive, nextTick, performanceHistory,
                    performanceData, file, tasks, events >>

\* The process is started again (after it ended, or after it was stopped).
Restart ==
    /\ events < MaxEvents
    /\ events' = events + 1
    /\ alive' = TRUE
    /\ performanceHistory' = LoadHistory(file)
    /\ performanceData' = << >>
    /\ nextTick' = clock + Period(variant)
    /\ \E snap \in StartSnaps, mem \in MemReadings :
          tasks' = << NewTask(variant, "cycle", clock, snap, mem) >>
    /\ last' = [op |-> "boot", loaded |-> file.kind]
    /\ UNCHANGED << variant, unhandled, clock, file >>

(***************************************************************************)
(* The cycles alone, over every window the file can hold, with a ping that *)
(* answers (or stays silent) and a disk that takes every write.            *)
(***************************************************************************)
EnvWindows == Env(AllFiles, CpuReadings, {Num(1234)}, {"ok"}, {0, 1})

InitWindows == InitEnv(EnvWindows)

NextWindows ==
    \/ \E i \in DOMAIN tasks : CpuTimer(EnvWindows, i)
    \/ \E i \in DOMAIN tasks : PingReply(EnvWindows, i)
    \/ Tick
    \/ Advance

SpecWindows == InitWindows /\ [][NextWindows]_vars

(***************************************************************************)
(* The same with the fairness the event loop gives: a timer that is due    *)
(* fires and time passes up to the next timer.  The ping process is not    *)
(* the program's: nothing makes exec call back.                            *)
(***************************************************************************)
SpecTimers ==
    /\ InitWindows
    /\ [][NextWindows]_vars
    /\ WF_vars(\E i \in DOMAIN tasks : CpuTimer(EnvWindows, i))
    /\ WF_vars(Tick)
    /\ WF_vars(Advance)

(***************************************************************************)
(* The cycles and the restarts of the process, on a disk that can fail;    *)
(* `new Date()` and `Date.now()` of a cycle read the same millisecond.     *)
(***************************************************************************)
EnvDisk == Env(FewFiles, CpuReadings, {Num(1234)}, WriteOutcomes, {0})

InitDisk == InitEnv(EnvDisk)

NextDisk ==
    \/ \E i \in DOMAIN tasks : CpuTimer(EnvDisk, i)
    \/ \E i \in DOMAIN tasks : PingReply(EnvDisk, i)
    \/ Tick
    \/ Advance
    \/ Restart

SpecDisk == InitDisk /\ [][NextDisk]_vars

(***************************************************************************)
(* The cycles and the requests, on a disk that takes every write.          *)
(***************************************************************************)
EnvQuery == Env(FewFiles, CpuReadings, {Num(1234)}, {"ok"}, {0})

InitQuery == InitEnv(EnvQuery)

NextQuery ==
    \/ \E i \in DOMAIN tasks : CpuTimer(EnvQuery, i)
    \/ \E i \in DOMAIN tasks : PingReply(EnvQuery, i)
    \/ \E i \in DOMAIN tasks : QueryTimeout(i)
    \/ Tick
    \/ Request
    \/ Advance

SpecQuery == InitQuery /\ [][NextQuery]_vars

(***************************************************************************)
(* The whole program: cycles, requests and restarts, a disk that can fail. *)
(***************************************************************************)
EnvAll == Env(FewFiles, CpuReadings, PingOutcomes, WriteOutcomes, {0, 1})

Init == InitEnv(EnvAll)

Next ==
    \/ \E i \in DOMAIN tasks : CpuTimer(EnvAll, i)
    \/ \E i \in DOMAIN tasks : PingReply(EnvAll, i)
    \/ \E i \in DOMAIN tasks : QueryTimeout(i)
    \/ Tick
    \/ Request
    \/ Advance
    \/ Restart

Spec == Init /\ [][Next]_vars

(***************************************************************************)
(* Properties.                                                             *)
(***************************************************************************)
\* The last step was a cycle that got past its first write: it aggregated and
\* pruned with now = clock.
CycleRan == last.op = "record" /\ last.stage # "append"

Bucketed == variant \in {"v6h", "guarded"}

Time(e) == GetTime(e.time)

\* C1: after the prune of a cycle every sample left in performanceHistory has
\* now - timestamp <= R, and the samples removed are exactly those with
\* now - timestamp > R: every sample the window held within the bound is still
\* there, and the window holds nothing else but the sample just appended.
PruneExact ==
    [][(last'.op = "record" /\ last'.stage # "append") =>
         LET now == clock'
             R == Retention(variant)
             old == performanceHistory
             new == performanceHistory'
             keep == {j \in DOMAIN old : now - Time(old[j]) <= R}
         IN  /\ \A k \in DOMAIN new : now - Time(new[k]) <= R
             /\ \A j \in keep : \E k \in DOMAIN new : new[k] = old[j]
             /\ Len(new) = Cardinality(keep) + 1
             /\ Time(new[Len(new)]) = clock]_vars

\* A prune removed a sample and kept one that is exactly R old.
PruneExactWitness ==
    /\ CycleRan
    /\ last.removed > 0
    /\ \E k \in DOMAIN performanceHistory :
          clock - Time(performanceHistory[k]) = Retention(variant)

\* C2: after any cycle that completed its aggregation performanceData holds
\* exactly bucketCount (6) buckets.
SeriesHasSixBuckets == CycleRan => Len(performanceData) = BucketCount

\* The samples of the window in the half-open interval of bucket i.
Selected(i) ==
    {j \in DOMAIN performanceHistory :
        /\ clock - (i + 1) * ONE_HOUR <= Time(performanceHistory[j])
        /\ Time(performanceHistory[j]) < clock - i * ONE_HOUR}

RECURSIVE Total(_, _)
Total(S, key) ==
    IF S = {} THEN 0
    ELSE LET j == CHOOSE x \in S : TRUE
             val == performanceHistory[j][key]
         IN  (IF val.k = "num" THEN val.v ELSE 0) + Total(S \ {j}, key)

\* The mean of the samples S, rounded to the nearest integer (a half goes
\* up); NaN when a sample holds NaN.
RoundedMean(S, key) ==
    IF \E j \in S : performanceHistory[j][key].k = "nan" THEN NaN
    ELSE LET n == Cardinality(S)
             t == Total(S, key)
         IN  Num(100 * (CHOOSE r \in 0..((t \div 100) + 1) :
                            /\ 200 * n * r - 100 * n <= 2 * t
                            /\ 2 * t < 200 * n * r + 100 * n))

\* C3: bucket i (0 the newest) holds the rounded means of cpu, ram and ping
\* over exactly the samples with now-(i+1)*bucketWidth <= t < now-i*bucketWidth,
\* so a sample on a boundary counts in the later bucket only and none counts
\* twice; the buckets come oldest first, each labelled with its end.
BucketsAreMeans ==
    (CycleRan /\ Bucketed) =>
       /\ Len(performanceData) = BucketCount
       /\ \A k \in 1..BucketCount :
             LET i == BucketCount - k
                 b == performanceData[k]
             IN  /\ b.time = TimeLabel(clock - i * ONE_HOUR)
                 /\ Selected(i) # {} =>
                       /\ b.cpu = RoundedMean(Selected(i), "cpu")
                       /\ b.ram = RoundedMean(Selected(i), "ram")
                       /\ b.ping = RoundedMean(Selected(i), "ping")
       /\ \A i1 \in 0..(BucketCount - 1), i2 \in 0..(BucketCount - 1) :
             i1 # i2 => Selected(i1) \cap Selected(i2) = {}

\* A sample lies exactly on the boundary between the two newest buckets, the
\* newest bucket averages two samples to a half and rounds it up.
BucketsAreMeansWitness ==
    /\ CycleRan /\ Bucketed
    /\ \E j \in Selected(0) : Time(performanceHistory[j]) = clock - ONE_HOUR
    /\ Cardinality(Selected(0)) = 2
    /\ Total(Selected(0), "cpu") = 6100
    /\ performanceData[BucketCount].cpu = Num(3100)

\* C4: a bucket whose interval holds no sample of the window is there, with
\* cpu = 0, ram = 0 and ping = 0.
EmptyBucketsAreZero ==
    (CycleRan /\ Bucketed) =>
       /\ Len(performanceData) = BucketCount
       /\ \A k \in 1..BucketCount :
             Selected(BucketCount - k) = {} =>
                /\ performanceData[k].cpu = Num(0)
                /\ performanceData[k].ram = Num(0)
                /\ performanceData[k].ping = Num(0)

\* A series with an empty bucket between two buckets that hold samples, the
\* older of them with values other than 0.
EmptyBucketsAreZeroWitness ==
    /\ CycleRan /\ Bucketed
    /\ \E k \in 2..(BucketCount - 1) :
          /\ Selected(BucketCount - k) = {}
          /\ \E lo \in 1..(k - 1) :
                /\ Selected(BucketCount - lo) # {}
                /\ performanceData[lo].cpu # Num(0)
          /\ \E hi \in (k + 1)..BucketCount : Selected(BucketCount - hi) # {}

\* C5: a GET /api/monitor whose ping never answers is answered within the
\* timeout, with ping = 0 (no request waits longer than QUERY_TIMEOUT).
QueryAnswersInTime ==
    /\ \A i \in DOMAIN tasks :
          tasks[i].kind = "query" => clock - tasks[i].start <= QUERY_TIMEOUT
    /\ (last.op = "respond" /\ last.pingWaiting) => last.ping = Num(0)

\* C6: a file that holds invalid JSON when the process starts gives an empty
\* window and a running process, and the first append after it whose write
\* goes through leaves a JSON array of exactly one element, the sample
\* appended.
InvalidFileRecovers ==
    /\ (last.op = "boot" /\ last.loaded = "invalid") =>
          alive /\ performanceHistory = << >>
    /\ (last.op = "record" /\ last.fileBefore = "invalid" /\ last.lenBefore = 0
         /\ last.wrote) =>
          /\ file.kind = "json"
          /\ Len(file.data) = 1
          /\ Len(performanceHistory) = 1
          /\ file.data[1] = StringifySample(performanceHistory[1])
          /\ ParseSample(file.data[1]).time = performanceHistory[1].time

\* The first cycle after a start on an invalid file has written its sample.
InvalidFileRecoversWitness ==
    /\ last.op = "record" /\ last.fileBefore = "invalid" /\ last.lenBefore = 0
    /\ last.wrote
    /\ file.kind = "json" /\ Len(file.data) = 1

\* C7: a window that was persisted and is loaded again is the same window:
\* as many samples, the same field values, the same order.
ReloadRoundTrip ==
    [][(last'.op = "boot" /\ file = Json(StringifyHistory(performanceHistory))) =>
         performanceHistory' = performanceHistory]_vars

\* C8: every cpuPercent getCpuUsage computes from two snapshots of as many
\* cores, no counter going down, is a number in [0, 100].
CpuPercentInRange ==
    \A i \in DOMAIN tasks :
        tasks[i].cpu.st = "done" =>
            /\ IsNum(tasks[i].cpu.val)
            /\ tasks[i].cpu.val.v >= 0
            /\ tasks[i].cpu.val.v <= 10000

\* C9: the sampler never fails: a second snapshot with more cores than the
\* first does not end the process.
SamplerNeverFails == last.op = "crash" => last.why # "cpus"

\* C10: a write of the history file that fails does not end the process and
\* the window keeps its samples, the one just appended included; a cycle
\* whose last write goes through leaves the whole window on disk.
WriteFailureSurvived ==
    /\ (last.op = "record" /\ last.threw) =>
          /\ alive
          /\ Len(performanceHistory) = last.lenBefore + 1 - last.removed
          /\ Len(performanceHistory) > 0
    /\ (last.op = "record" /\ last.wrote) =>
          file = Json(StringifyHistory(performanceHistory))

\* The sample a cycle appended: the last of the window.
Appended == performanceHistory[Len(performanceHistory)]

\* C11: a latency probe that failed is recorded as 'no reading': the sample
\* the cycle appends holds null for ping, not the number 0 that a measured
\* 0 ms gives.
FailedProbeIsNoReading ==
    (last.op = "record" /\ last.probe = Null) => Appended.ping # Num(0)

\* C12: every response of GET /api/monitor carries a series of exactly 6
\* buckets, also before the first cycle has completed and on the timeout
\* path.
ResponseHasSixBuckets ==
    last.op = "respond" => Len(last.performanceData) = BucketCount

\* C13: a request leaves performanceHistory, performanceData and the file as
\* they are, from its arrival to its response, whatever a cycle does in
\* between; the series it sends is the series cached at that moment: the
\* initial value or what a finished aggregation assigned, whole.
QueryOnlyReads ==
    [][(last'.op \in {"request", "await", "respond"}) =>
         /\ UNCHANGED << performanceHistory, performanceData, file >>
         /\ last'.op = "respond" =>
               /\ last'.performanceData = performanceData
               /\ \/ last'.performanceData = << >>
                  \/ ~Bucketed
                  \/ Len(last'.performanceData) = BucketCount]_vars

\* A request that arrived while the first cycle was running is answered with
\* the series that cycle cached in the meantime.
QueryOnlyReadsWitness ==
    /\ last.op = "respond"
    /\ last.start = BootTime
    /\ last.performanceData # << >>
    /\ last.performanceData = performanceData

\* A recordPerformance call is between its start and its completion.
CycleRunning == \E i \in DOMAIN tasks : tasks[i].kind = "cycle"

\* C14: every cycle that is started eventually finishes, also when the ping
\* process never answers.
CyclesFinish == CycleRunning ~> ~CycleRunning

\* C15: cycles are serialized: at no time are two recordPerformance calls
\* between their start and their completion.
CyclesSerialized ==
    Cardinality({i \in DOMAIN tasks : tasks[i].kind = "cycle"}) <= 1

\* The file holds the whole window, sample for sample, as JSON.stringify
\* writes it.
OnDisk ==
    /\ file.kind = "json"
    /\ Len(file.data) = Len(performanceHistory)
    /\ \A k \in DOMAIN performanceHistory :
          file.data[k] = StringifySample(performanceHistory[k])

\* C16: when a cycle returns to the event loop and its last write went
\* through, the file holds the whole in-memory window (after an append, after
\* a prune, with another cycle in flight), and it goes on holding it until
\* the next cycle writes.
SnapshotOnDisk ==
    [][/\ (last'.op = "record" /\ last'.wrote) => OnDisk'
       /\ (OnDisk /\ last'.op # "record") => OnDisk']_vars

\* A cycle wrote the window of two or more samples while another cycle was
\* in flight.
SnapshotOnDiskWitness ==
    /\ last.op = "record" /\ last.wrote
    /\ CycleRunning
    /\ Len(performanceHistory) >= 2
    /\ OnDisk

\* C17: within a cycle the steps come in the order append, prune, aggregate:
\* a cycle that leaves at the write of its prune has not aggregated yet, so
\* the cached series is still the old one; and a cycle that runs to its end
\* caches the aggregate of the pruned window.
PruneBeforeAggregate ==
    [][(last'.op = "record" /\ Bucketed) =>
         /\ last'.stage = "prune" => performanceData' = performanceData
         /\ last'.stage = "done" =>
               performanceData' = HourlyData(performanceHistory', clock')]_vars

\* C18: after a cycle the cached series is determined by the window and the
\* cycle's now alone: it is what the aggregator gives from an empty series,
\* with nothing carried over from the series an earlier cycle cached.
SeriesFullyReplaced ==
    CycleRan => performanceData = Aggregate(variant, << >>, performanceHistory, clock)

\* C19: a cycle changes the window only by appending one sample at the end
\* and by removing the samples older than the retention: the samples it keeps
\* are the old ones within the bound, unchanged and in their order, followed
\* by the new one; no other step of the running program changes the window.
WindowAppendAndPrune ==
    [][/\ last'.op = "record" =>
            LET now == clock'
                R == Retention(variant)
                old == performanceHistory
                new == performanceHistory'
                kept == IF last'.stage = "append" THEN old
                        ELSE SelectSeq(old, LAMBDA e : now - Time(e) <= R)
            IN  /\ Len(new) = Len(kept) + 1
                /\ SubSeq(new, 1, Len(kept)) = kept
                /\ Time(new[Len(new)]) = clock
       /\ last'.op \notin {"record", "boot"} =>
            performanceHistory' = performanceHistory]_vars

\* A cycle removed an old sample and kept two samples in front of the one it
\* appended.
WindowAppendAndPruneWitness ==
    /\ CycleRan
    /\ last.removed > 0
    /\ Len(performanceHistory) >= 3
    /\ Time(performanceHistory[1]) < Time(performanceHistory[2])
    /\ Time(Appended) >= clock - 1

\* The buckets of the series that count sample j of the window.
BucketsOf(j) == {i \in 0..(BucketCount - 1) : j \in Selected(i)}

\* C20: the sample a cycle appends is counted in the newest bucket of the
\* series of that cycle, whatever the time between its timestamp and the now
\* read after it; and every sample the prune keeps is counted in exactly one
\* of the 6 buckets.
FreshSampleCounted ==
    (CycleRan /\ Bucketed) =>
       /\ Len(performanceHistory) \in Selected(0)
       /\ \A j \in DOMAIN performanceHistory : Cardinality(BucketsOf(j)) = 1

====
